---- MODULE Spec2Model ----
(***************************************************************************)
(* Target-time resolution pipeline of CompletePhotoTime.cpp:               *)
(*   sorted items -> applyFilenameOverrideForTarget -> default assignment  *)
(*   (target = shot) -> inferMissingByInterpolation                        *)
(*   -> makeFilledTargetsStrictlyIncreasing.                               *)
(* items is the std::vector<Item> of main, opt the Options, pc the place   *)
(* main has reached.  Sequence indices are 1-based here (the code's        *)
(* items[L + j] with 0-based L is items[L + j] with 1-based L); the loop   *)
(* variables j (0-based) and k (1-based) are kept as in the code.          *)
(***************************************************************************)
EXTENDS Integers, Sequences, FiniteSets, TLC

VARIABLES items, opt, pc

vars == <<items, opt, pc>>

(***************************************************************************)
(* Bounds of the model.                                                    *)
(***************************************************************************)
\* longest item vector of the general pipeline specification
MaxItems == 3
\* longest run of items without shot time in the segment specification
MaxSeg == 5
\* largest anchor time of the segment specification
MaxT == 10

(***************************************************************************)
(* std::optional<std::time_t>: the empty sequence is nullopt.              *)
(***************************************************************************)
None == <<>>
Some(t) == <<t>>
Has(o) == o # <<>>
Val(o) == o[1]

\* seconds per day, the factor of both day thresholds
DaySec == 86400

llabs(x) == IF x < 0 THEN -x ELSE x

absDiffSec(a, b) == llabs(a - b)

\* a division that rounds toward minus infinity instead
FloorDiv(a, b) == a \div b

\* C++ integer division of a by b > 0: the quotient is truncated toward zero
TruncDiv(a, b) == IF a >= 0 THEN a \div b ELSE -((-a) \div b)

(***************************************************************************)
(* fillShotTime: metadata first, then (when enabled) the filename time.    *)
(* meta is what readShotTimeFromMetadata returned, fname what              *)
(* parseFilenameTime returns for the item's path.                          *)
(***************************************************************************)
fillShotTime(meta, fname, o) ==
    IF Has(meta) THEN [shot |-> meta, shotSource |-> "ExifOrXmp"]
    ELSE IF o.enableFilenameFallbackForShot /\ Has(fname)
         THEN [shot |-> fname, shotSource |-> "Filename"]
         ELSE [shot |-> None, shotSource |-> "None"]

(***************************************************************************)
(* An Item as main holds it after collectFiles and fillShotTime.  ctime    *)
(* and wtime exist only in the Windows build, and collectFiles sets both   *)
(* or neither.  fname stands for parseFilenameTime(path), a function of    *)
(* the path alone.                                                         *)
(***************************************************************************)
Item(path, mtime, cw, meta, fname, o) ==
    [path |-> path, mtime |-> mtime,
     ctime |-> IF Has(cw) THEN Some(cw[1][1]) ELSE None,
     wtime |-> IF Has(cw) THEN Some(cw[1][2]) ELSE None,
     fname |-> fname,
     shot |-> fillShotTime(meta, fname, o).shot,
     shotSource |-> fillShotTime(meta, fname, o).shotSource,
     target |-> None, targetReason |-> ""]

\* a comparator without the path tie-break
ItemLessMtimeOnly(a, b) == a.mtime < b.mtime

\* the comparator std::sort is given in main
ItemLess(a, b) ==
    IF a.mtime # b.mtime THEN a.mtime < b.mtime ELSE a.path < b.path

\* the vector as std::sort leaves it
IsSorted(its) ==
    \A i \in 1..(Len(its) - 1) : ItemLess(its[i], its[i + 1])

\* std::sort with the comparator above: the arrangement it returns, built by
\* inserting each record in front of the first record it is less than
RECURSIVE InsertSorted(_, _)
InsertSorted(s, x) ==
    IF s = <<>> THEN <<x>>
    ELSE IF ItemLess(x, Head(s)) THEN <<x>> \o s
    ELSE <<Head(s)>> \o InsertSorted(Tail(s), x)

RECURSIVE SortItems(_)
SortItems(its) ==
    IF its = <<>> THEN <<>>
    ELSE InsertSorted(SortItems(Tail(its)), Head(its))

(***************************************************************************)
(* applyFilenameOverrideForTarget                                          *)
(***************************************************************************)
\* the drift test: strictly greater than the threshold
TooFar(d, thresholdSec) == d > thresholdSec

\* one far reference time being enough, instead of both
EitherTooFar(it, nt, thresholdSec) ==
    \/ TooFar(absDiffSec(Val(it.ctime), nt), thresholdSec)
    \/ TooFar(absDiffSec(Val(it.wtime), nt), thresholdSec)

\* both create and write time far from the filename time (Windows build)
BothTooFar(it, nt, thresholdSec) ==
    /\ TooFar(absDiffSec(Val(it.ctime), nt), thresholdSec)
    /\ TooFar(absDiffSec(Val(it.wtime), nt), thresholdSec)

applyFilenameOverrideForTarget(it, o) ==
    IF ~o.enableFilenameOverrideForTarget THEN it
    ELSE IF ~Has(it.fname) THEN it
    ELSE LET nt == Val(it.fname)
             thresholdSec == o.filenameOverrideDays * DaySec
         IN  IF Has(it.ctime) /\ Has(it.wtime)
             THEN IF BothTooFar(it, nt, thresholdSec)
                  THEN [it EXCEPT !.target = Some(nt),
                          !.targetReason = "filename override (fs create/write too far)"]
                  ELSE it
             ELSE IF TooFar(absDiffSec(it.mtime, nt), thresholdSec)
                  THEN [it EXCEPT !.target = Some(nt),
                          !.targetReason = "filename override (mtime too far)"]
                  ELSE it

(***************************************************************************)
(* main's default assignment: target = shot for items that have a shot     *)
(* time and no target yet.                                                 *)
(***************************************************************************)
\* a default assignment that does not look at the target already set
DefaultNeededAnyTarget(it) == Has(it.shot)

DefaultNeeded(it) == ~Has(it.target) /\ Has(it.shot)

assignShotAsTarget(it) ==
    IF DefaultNeeded(it)
    THEN [it EXCEPT !.target = it.shot,
             !.targetReason = IF it.shotSource = "Filename"
                              THEN "shot from filename"
                              ELSE "shot from metadata"]
    ELSE it

(***************************************************************************)
(* inferMissingByInterpolation                                             *)
(***************************************************************************)
\* a setter that does not look at the target it overwrites
TargetEmptyAlways(it) == TRUE

\* the lambda setIfEmptyTarget
TargetEmpty(it) == ~Has(it.target)

setIfEmptyTarget(its, idx, t, reason) ==
    IF TargetEmpty(its[idx])
    THEN [its EXCEPT ![idx].target = Some(t), ![idx].targetReason = reason]
    ELSE its

\* the regime tests
GapTooLarge(gap, gapLimitSec) == llabs(gap) > gapLimitSec

AnchorsTooClose(gap, m) == llabs(gap) < m + 1

\* a first half that is one item longer
NearestTimeLe(j, m, Tprev, Tnext) == IF j <= m \div 2 THEN Tprev ELSE Tnext

\* the time given to the item at 0-based segment index j, regime by regime
NearestTime(j, m, Tprev, Tnext) == IF j < m \div 2 THEN Tprev ELSE Tnext

\* a direction that is backward for a zero gap
StepDirStrict(gap) == IF gap > 0 THEN 1 ELSE -1

StepDir(gap) == IF gap >= 0 THEN 1 ELSE -1

CloseStepTime(k, Tprev, gap, o) ==
    Tprev + StepDir(gap) * k * o.oneSideStepSeconds

InterpTime(k, m, Tprev, gap) == Tprev + TruncDiv(gap * k, m + 1)

\* a forward fill that steps whatever the switch says
PrevOnlyTimeAlwaysStep(j, Tprev, o) ==
    Tprev + (j + 1) * o.oneSideStepSeconds

PrevOnlyTime(j, Tprev, o) ==
    IF o.oneSideStep THEN Tprev + (j + 1) * o.oneSideStepSeconds ELSE Tprev

\* a backward fill whose last item lands on the anchor itself
NextOnlyTimeOnAnchor(j, m, Tnext, o) ==
    IF o.oneSideStep THEN Tnext - (m - j - 1) * o.oneSideStepSeconds ELSE Tnext

NextOnlyTime(j, m, Tnext, o) ==
    IF o.oneSideStep THEN Tnext - (m - j) * o.oneSideStepSeconds ELSE Tnext

\* the time and the reason of the item at 0-based segment index j of a
\* segment of m items whose neighbours' shot times are Tprev and Tnext
\* (optional); None when neither exists and the item is left alone
SegmentFill(j, m, Tprev, Tnext, o) ==
    IF Has(Tprev) /\ Has(Tnext)
    THEN LET gap == Val(Tnext) - Val(Tprev)
         IN  IF GapTooLarge(gap, o.anchorGapLimitDays * DaySec)
             THEN Some(<<NearestTime(j, m, Val(Tprev), Val(Tnext)),
                         "gap too large -> nearest anchor fill">>)
             ELSE IF AnchorsTooClose(gap, m)
                  THEN Some(<<CloseStepTime(j + 1, Val(Tprev), gap, o),
                              "anchors too close -> step-filled">>)
                  ELSE Some(<<InterpTime(j + 1, m, Val(Tprev), gap),
                              "interpolated between anchors">>)
    ELSE IF Has(Tprev) /\ ~Has(Tnext)
    THEN Some(<<PrevOnlyTime(j, Val(Tprev), o),
                IF o.oneSideStep THEN "only prev anchor -> filled +1s steps"
                                 ELSE "only prev anchor -> filled">>)
    ELSE IF ~Has(Tprev) /\ Has(Tnext)
    THEN Some(<<NextOnlyTime(j, m, Val(Tnext), o),
                IF o.oneSideStep THEN "only next anchor -> filled -1s steps"
                                 ELSE "only next anchor -> filled">>)
    ELSE None

\* the for loop over the segment [L, R], from 0-based index j on
RECURSIVE FillFrom(_, _, _, _, _, _, _)
FillFrom(its, L, m, j, Tprev, Tnext, o) ==
    IF j >= m THEN its
    ELSE LET f == SegmentFill(j, m, Tprev, Tnext, o)
         IN  FillFrom(IF Has(f)
                      THEN setIfEmptyTarget(its, L + j, Val(f)[1], Val(f)[2])
                      ELSE its,
                      L, m, j + 1, Tprev, Tnext, o)

\* an inner while that never advances
InnerContinuesNever(its, i) == FALSE

\* the condition of the inner while
InnerContinues(its, i) == i <= Len(its) /\ ~Has(its[i].shot)

\* the inner while: the first index from i on whose item has a shot time
RECURSIVE SegEnd(_, _)
SegEnd(its, i) ==
    IF i <= Len(its) /\ ~Has(its[i].shot) THEN SegEnd(its, i + 1) ELSE i

\* a bound check that misses an anchor at the first index
SegTprevSkipFirst(its, L) == IF L - 1 > 1 THEN its[L - 1].shot ELSE None

\* the neighbours' shot times of the segment [L, R]
SegTprev(its, L) == IF L - 1 >= 1 THEN its[L - 1].shot ELSE None

SegTnext(its, R) == IF R + 1 <= Len(its) THEN its[R + 1].shot ELSE None

\* the outer while, from index i on
RECURSIVE Scan(_, _, _)
Scan(its, i, o) ==
    IF i > Len(its) THEN its
    ELSE IF Has(its[i].shot) THEN Scan(its, i + 1, o)
    ELSE LET L == i
             R == SegEnd(its, i) - 1
             m == R - L + 1
         IN  Scan(FillFrom(its, L, m, 0, SegTprev(its, L), SegTnext(its, R), o),
                  R + 1, o)

inferMissingByInterpolation(its, o) == Scan(its, 1, o)

(***************************************************************************)
(* makeFilledTargetsStrictlyIncreasing                                     *)
(***************************************************************************)
UniqueStep(o) == IF o.oneSideStepSeconds > 1 THEN o.oneSideStepSeconds ELSE 1

\* a pass that treats every item as inferred
isFilledAll(it) == TRUE

isFilled(it) == ~Has(it.shot)

\* a test that lets equal targets through
NeedsBumpStrict(it, prevTarget) ==
    Has(prevTarget) /\ isFilled(it) /\ Val(it.target) < Val(prevTarget)

NeedsBump(it, prevTarget) ==
    Has(prevTarget) /\ isFilled(it) /\ Val(it.target) <= Val(prevTarget)

\* a bump of one second whatever the step
BumpItemByOne(it, prevTarget, step) ==
    [it EXCEPT !.target = Some(Val(prevTarget) + 1),
               !.targetReason = (IF it.targetReason # ""
                                 THEN it.targetReason \o " + " ELSE "")
                                \o "unique(+1s steps)"]

\* a bump that stores the new time as the record's shot time too
BumpItemAndShot(it, prevTarget, step) ==
    [it EXCEPT !.target = Some(Val(prevTarget) + step),
               !.shot = Some(Val(prevTarget) + step),
               !.targetReason = (IF it.targetReason # ""
                                 THEN it.targetReason \o " + " ELSE "")
                                \o "unique(+1s steps)"]

BumpItem(it, prevTarget, step) ==
    [it EXCEPT !.target = Some(Val(prevTarget) + step),
               !.targetReason = (IF it.targetReason # ""
                                 THEN it.targetReason \o " + " ELSE "")
                                \o "unique(+1s steps)"]

\* prevTarget taken from the target before the bump
PrevAfterRaw(before, after) == before.target

\* prevTarget for the next item: the final target of this one
PrevAfter(before, after) == after.target

RECURSIVE Sweep(_, _, _, _)
Sweep(its, i, prevTarget, step) ==
    IF i > Len(its) THEN its
    ELSE IF ~Has(its[i].target) THEN Sweep(its, i + 1, prevTarget, step)
    ELSE LET after == IF NeedsBump(its[i], prevTarget)
                      THEN BumpItem(its[i], prevTarget, step)
                      ELSE its[i]
         IN  Sweep([its EXCEPT ![i] = after], i + 1,
                   PrevAfter(its[i], after), step)

makeFilledTargetsStrictlyIncreasing(its, o) == Sweep(its, 1, None, UniqueStep(o))

(***************************************************************************)
(* Inputs.                                                                 *)
(***************************************************************************)
\* struct Options, the fields the pipeline reads
Options(fallback, override, ovDays, gapDays, oneSide, stepSec) ==
    [enableFilenameFallbackForShot |-> fallback,
     enableFilenameOverrideForTarget |-> override,
     filenameOverrideDays |-> ovDays,
     anchorGapLimitDays |-> gapDays,
     oneSideStep |-> oneSide,
     oneSideStepSeconds |-> stepSec]

\* the general pipeline: every combination of the switches main asks for,
\* oneSideStepSeconds at its default 1 (main never asks for it); a threshold of
\* 0 days is exceeded by every drift, one of 1 day by none of these times
MainOptions ==
    { Options(fb, ov, od, gd, os, 1) :
        fb \in BOOLEAN, ov \in BOOLEAN, od \in {0, 1}, gd \in {0, 1},
        os \in BOOLEAN }

MainMtimes == {1, 2}

MainMeta == {None, Some(0), Some(3)}

MainFname == {None, Some(2)}

(***************************************************************************)
(* The state after std::sort: items in (mtime, path) order, no target.     *)
(***************************************************************************)
Init ==
    \E n \in 1..MaxItems :
      \E ms \in [1..n -> MainMtimes], metas \in [1..n -> MainMeta],
         fns \in [1..n -> MainFname], o \in MainOptions :
        /\ items = [i \in 1..n |-> Item(i, ms[i], None, metas[i], fns[i], o)]
        /\ IsSorted(items)
        /\ opt = o
        /\ pc = "sorted"

(***************************************************************************)
(* The stages of main, in its order.                                       *)
(***************************************************************************)
Override ==
    /\ pc = "sorted"
    /\ items' = IF opt.enableFilenameOverrideForTarget
                THEN [i \in DOMAIN items |->
                        applyFilenameOverrideForTarget(items[i], opt)]
                ELSE items
    /\ pc' = "overridden"
    /\ UNCHANGED opt

Default ==
    /\ pc = "overridden"
    /\ items' = [i \in DOMAIN items |-> assignShotAsTarget(items[i])]
    /\ pc' = "defaulted"
    /\ UNCHANGED opt

Infer ==
    /\ pc = "defaulted"
    /\ items' = inferMissingByInterpolation(items, opt)
    /\ pc' = "inferred"
    /\ UNCHANGED opt

Unique ==
    /\ pc = "inferred"
    /\ items' = makeFilledTargetsStrictlyIncreasing(items, opt)
    /\ pc' = "done"
    /\ UNCHANGED opt

Next == Override \/ Default \/ Infer \/ Unique

Spec == Init /\ [][Next]_vars

(***************************************************************************)
(* The override rule on one item, with reference times on both sides of    *)
(* the day threshold (Windows build: ctime and wtime may be present).      *)
(***************************************************************************)
RefTimes == {0, DaySec, DaySec + 1}

OverrideOptions ==
    { Options(fb, ov, od, 1, TRUE, 1) :
        fb \in BOOLEAN, ov \in BOOLEAN, od \in {0, 1} }

InitOverride ==
    \E mt \in RefTimes,
       cw \in {None} \cup { Some(<<c, w>>) : c \in RefTimes, w \in RefTimes },
       meta \in {None, Some(0)},
       fn \in {None, Some(0), Some(DaySec + 1)},
       o \in OverrideOptions :
        /\ items = <<Item(1, mt, cw, meta, fn, o)>>
        /\ opt = o
        /\ pc = "sorted"

SpecOverride == InitOverride /\ [][Next]_vars

(***************************************************************************)
(* One segment: an optional anchor, m items without shot time, an optional *)
(* anchor.  At most one item of the segment carries a filename time, which *)
(* the override turns into its target (filename fallback is off, so the    *)
(* item stays without shot time).  Anchor times lie in 0..MaxT or a day    *)
(* away.                                                                   *)
(***************************************************************************)
\* largest oneSideStepSeconds: the functions read it from the Options they
\* are handed; main leaves it at 1, the segment specification also tries more
MaxStep == 2

SegOptions ==
    { Options(FALSE, TRUE, 0, gd, os, st) :
        gd \in {0, 1}, os \in BOOLEAN, st \in 1..MaxStep }

AnchorTimes == (0..MaxT) \cup {DaySec, DaySec + 1}

SegItems(tp, m, ov, tn, o) ==
    LET pre == IF Has(tp) THEN 1 ELSE 0
        n == pre + m + (IF Has(tn) THEN 1 ELSE 0)
    IN  [i \in 1..n |->
           IF i <= pre THEN Item(i, i, None, tp, None, o)
           ELSE IF i > pre + m THEN Item(i, i, None, tn, None, o)
           ELSE Item(i, i, None, None,
                     IF i - pre = ov THEN Some(0) ELSE None, o)]

InitSeg ==
    \E tp \in {None} \cup { Some(t) : t \in AnchorTimes },
       tn \in {None} \cup { Some(t) : t \in AnchorTimes },
       m \in 1..MaxSeg, o \in SegOptions :
      \E ov \in 0..m :
        /\ items = SegItems(tp, m, ov, tn, o)
        /\ opt = o
        /\ pc = "sorted"

SpecSeg == InitSeg /\ [][Next]_vars

(***************************************************************************)
(* The pipeline from the collected files on: the vector as collectFiles    *)
(* and fillShotTime leave it, in any arrangement of distinct paths, then   *)
(* std::sort and the stages above.                                         *)
(***************************************************************************)
Perms(n) ==
    { p \in [1..n -> 1..n] : \A i, j \in 1..n : i # j => p[i] # p[j] }

SortOptions == { Options(FALSE, FALSE, 0, 1, os, 1) : os \in BOOLEAN }

SortMeta == {None, Some(0)}

InitSort ==
    \E n \in 1..MaxItems :
      \E p \in Perms(n), ms \in [1..n -> MainMtimes],
         metas \in [1..n -> SortMeta], o \in SortOptions :
        /\ items = [i \in 1..n |-> Item(p[i], ms[i], None, metas[i], None, o)]
        /\ opt = o
        /\ pc = "collected"

Sort ==
    /\ pc = "collected"
    /\ items' = SortItems(items)
    /\ pc' = "sorted"
    /\ UNCHANGED opt

NextSort == Sort \/ Override \/ Default \/ Infer \/ Unique

SpecSort == InitSort /\ [][NextSort]_vars

(***************************************************************************)
(* inferMissingByInterpolation statement by statement.  pc is the frame of *)
(* the call: the position (at), the locals i, L, R, Tprev, Tnext and the   *)
(* index j of the for loop, and two history fields: the segments found so  *)
(* far (segs) and the vector the call was given (start).  The vector is    *)
(* one the default assignment leaves: record i has mtime i, records are    *)
(* anchors, empty, or without anchor and given a target by the override.   *)
(***************************************************************************)
MaxScan == 4

ScanOptions ==
    { Options(FALSE, TRUE, 0, gd, os, 1) : gd \in {0, 1}, os \in BOOLEAN }

\* <<metadata time, filename time>> of a record
ScanKinds == {<<None, None>>, <<Some(0), None>>, <<Some(3), None>>,
              <<None, Some(2)>>}

InitScan ==
    \E n \in 1..MaxScan :
      \E ks \in [1..n -> ScanKinds], o \in ScanOptions :
        /\ items = [i \in 1..n |->
                      assignShotAsTarget(
                        applyFilenameOverrideForTarget(
                          Item(i, i, None, ks[i][1], ks[i][2], o), o))]
        /\ opt = o
        /\ pc = [at |-> "while", i |-> 1, L |-> 0, R |-> 0, j |-> 0,
                 Tprev |-> None, Tnext |-> None, segs |-> <<>>,
                 start |-> items]

\* while (i < n): a record with shot time is passed
ScanSkip ==
    /\ pc.at = "while"
    /\ pc.i <= Len(items)
    /\ Has(items[pc.i].shot)
    /\ pc' = [pc EXCEPT !.i = @ + 1]
    /\ UNCHANGED <<items, opt>>

\* L = i
ScanOpen ==
    /\ pc.at = "while"
    /\ pc.i <= Len(items)
    /\ ~Has(items[pc.i].shot)
    /\ pc' = [pc EXCEPT !.at = "inner", !.L = pc.i]
    /\ UNCHANGED <<items, opt>>

\* one round of the inner while
ScanInner ==
    /\ pc.at = "inner"
    /\ InnerContinues(items, pc.i)
    /\ pc' = [pc EXCEPT !.i = @ + 1]
    /\ UNCHANGED <<items, opt>>

\* the inner while is left: R, Tprev, Tnext
ScanClose ==
    /\ pc.at = "inner"
    /\ ~InnerContinues(items, pc.i)
    /\ LET R == pc.i - 1
       IN  pc' = [pc EXCEPT !.at = "fill", !.R = R, !.j = 0,
                            !.Tprev = SegTprev(items, pc.L),
                            !.Tnext = SegTnext(items, R),
                            !.segs = Append(@, <<pc.L, R>>)]
    /\ UNCHANGED <<items, opt>>

\* one round of the for loop of the segment's regime
ScanFill ==
    /\ pc.at = "fill"
    /\ pc.j < pc.R - pc.L + 1
    /\ LET f == SegmentFill(pc.j, pc.R - pc.L + 1, pc.Tprev, pc.Tnext, opt)
       IN  items' = IF Has(f)
                    THEN setIfEmptyTarget(items, pc.L + pc.j,
                                          Val(f)[1], Val(f)[2])
                    ELSE items
    /\ pc' = [pc EXCEPT !.j = @ + 1]
    /\ UNCHANGED opt

\* the for loop is left: back to the outer while
ScanNext ==
    /\ pc.at = "fill"
    /\ pc.j >= pc.R - pc.L + 1
    /\ pc' = [pc EXCEPT !.at = "while"]
    /\ UNCHANGED <<items, opt>>

\* the outer while is left
ScanDone ==
    /\ pc.at = "while"
    /\ pc.i > Len(items)
    /\ pc' = [pc EXCEPT !.at = "done"]
    /\ UNCHANGED <<items, opt>>

NextScan ==
    \/ ScanSkip \/ ScanOpen \/ ScanInner \/ ScanClose
    \/ ScanFill \/ ScanNext \/ ScanDone

\* the call runs on: a step that can be taken is taken
SpecScan == InitScan /\ [][NextScan]_vars /\ WF_vars(NextScan)

(***************************************************************************)
(* Vocabulary of the properties.                                           *)
(***************************************************************************)
Idx == DOMAIN items

HasAnchor(i) == Has(items[i].shot)

HasTarget(i) == Has(items[i].target)

InferStep == pc = "defaulted" /\ pc' = "inferred"

OverrideReasons ==
    {"filename override (mtime too far)",
     "filename override (fs create/write too far)"}

\* the nearest record before i that has a target, if any
PrevWithTarget(i) ==
    IF \E j \in 1..(i - 1) : HasTarget(j)
    THEN Some(CHOOSE j \in 1..(i - 1) :
                 HasTarget(j) /\ \A h \in (j + 1)..(i - 1) : ~HasTarget(h))
    ELSE None

\* the segments: maximal non-empty runs of records without anchor
Segments ==
    { s \in Idx \X Idx :
        /\ s[1] <= s[2]
        /\ \A i \in s[1]..s[2] : ~HasAnchor(i)
        /\ s[1] = 1 \/ HasAnchor(s[1] - 1)
        /\ s[2] = Len(items) \/ HasAnchor(s[2] + 1) }

\* the override rule as the specification words it
Exceeds(a, b, days) == a - b > days * 86400 \/ b - a > days * 86400

OverrideFires(it) ==
    /\ opt.enableFilenameOverrideForTarget
    /\ Has(it.fname)
    /\ IF Has(it.ctime) /\ Has(it.wtime)
       THEN /\ Exceeds(Val(it.ctime), Val(it.fname), opt.filenameOverrideDays)
            /\ Exceeds(Val(it.wtime), Val(it.fname), opt.filenameOverrideDays)
       ELSE Exceeds(it.mtime, Val(it.fname), opt.filenameOverrideDays)

(***************************************************************************)
(* C1. Non-overwrite: inferMissingByInterpolation leaves the target and    *)
(* the reason of every record whose target was already set (by the         *)
(* override or the default assignment) as they were, and changes only      *)
(* records whose target was unset.                                         *)
(***************************************************************************)
C1_NonOverwrite ==
    [][InferStep =>
         /\ Len(items') = Len(items)
         /\ \A i \in Idx :
              /\ HasTarget(i) =>
                   /\ items'[i].target = items[i].target
                   /\ items'[i].targetReason = items[i].targetReason
              /\ items'[i] # items[i] => ~HasTarget(i)]_vars

\* an overridden record without anchor sits next to an anchor, in a segment
\* the engine filled, and still carries the override
C1_Witness ==
    /\ pc = "inferred"
    /\ \E i \in Idx :
         /\ ~HasAnchor(i)
         /\ items[i].targetReason \in OverrideReasons
         /\ items[i].target = items[i].fname
         /\ \E j \in Idx : HasAnchor(j) /\ (j = i - 1 \/ j = i + 1)
         /\ \E h \in Idx :
              ~HasAnchor(h) /\ HasTarget(h)
              /\ items[h].targetReason \notin OverrideReasons

(***************************************************************************)
(* C2. After the uniqueness pass every record without anchor that has a    *)
(* target lies strictly after the nearest preceding record that has a      *)
(* target.                                                                 *)
(***************************************************************************)
C2_InferredAfterPrevious ==
    pc = "done" =>
      \A i \in Idx :
        (~HasAnchor(i) /\ HasTarget(i) /\ Has(PrevWithTarget(i))) =>
          Val(items[i].target) > Val(items[Val(PrevWithTarget(i))].target)

\* a record filled with the time of the anchor before it was bumped
C2_Witness ==
    /\ pc = "done"
    /\ \E i \in Idx :
         /\ i > 1
         /\ ~HasAnchor(i)
         /\ items[i].targetReason = "only prev anchor -> filled + unique(+1s steps)"
         /\ Val(items[i].target) = Val(items[i - 1].target) + 1

(***************************************************************************)
(* C3. After the whole pipeline no two records that have a target share    *)
(* it, and targets follow the timeline order.                              *)
(***************************************************************************)
C3_UniqueAndOrdered ==
    pc = "done" =>
      \A i, j \in Idx :
        (i < j /\ HasTarget(i) /\ HasTarget(j)) =>
          Val(items[i].target) < Val(items[j].target)

(***************************************************************************)
(* C4. Idempotence: running inferMissingByInterpolation and then           *)
(* makeFilledTargetsStrictlyIncreasing again on the result of the pipeline *)
(* changes nothing.                                                        *)
(***************************************************************************)
C4_Idempotent ==
    pc = "done" =>
      makeFilledTargetsStrictlyIncreasing(
          inferMissingByInterpolation(items, opt), opt) = items

\* the first run both filled and bumped: two records in a row carry a bump
C4_Witness ==
    /\ pc = "done"
    /\ \E i \in Idx :
         /\ i + 1 \in Idx
         /\ items[i].targetReason = "only prev anchor -> filled + unique(+1s steps)"
         /\ items[i + 1].targetReason = "only prev anchor -> filled + unique(+1s steps)"

(***************************************************************************)
(* C6. A record that has an anchor ends with target = filename time and a  *)
(* filename-override reason if the override fired for it, and otherwise    *)
(* with target = shot and the reason its source gives; this holds from the *)
(* default assignment on, through inference and the uniqueness pass.       *)
(***************************************************************************)
C6_AnchoredFinalTarget ==
    pc \in {"defaulted", "inferred", "done"} =>
      \A i \in Idx :
        HasAnchor(i) =>
          IF OverrideFires(items[i])
          THEN /\ items[i].target = items[i].fname
               /\ items[i].targetReason \in OverrideReasons
          ELSE /\ items[i].target = items[i].shot
               /\ items[i].targetReason =
                    (IF items[i].shotSource = "Filename"
                     THEN "shot from filename" ELSE "shot from metadata")

\* an anchored record keeps a target that is not after the final target of
\* the inferred record before it
C6_Witness ==
    /\ pc = "done"
    /\ \E i \in Idx :
         /\ i > 1
         /\ HasAnchor(i)
         /\ ~HasAnchor(i - 1)
         /\ HasTarget(i - 1)
         /\ Val(items[i].target) <= Val(items[i - 1].target)
         /\ items[i].target = items[i].shot

(***************************************************************************)
(* C5. Override decision rule: with overriding enabled and a filename time *)
(* F, the override fires iff both |create - F| and |write - F| exceed      *)
(* filenameOverrideDays * 86400 when create and write time are both        *)
(* available, and iff |mtime - F| exceeds it otherwise; when it does not   *)
(* fire (also: overriding disabled, no F) target and reason stay unset.    *)
(***************************************************************************)
C5_OverrideRule ==
    pc = "overridden" =>
      \A i \in Idx :
        IF OverrideFires(items[i])
        THEN /\ items[i].target = items[i].fname
             /\ items[i].targetReason \in OverrideReasons
        ELSE /\ items[i].target = None
             /\ items[i].targetReason = ""

\* create time beyond the threshold, write time exactly on it: no override,
\* though mtime alone would have fired it
C5_Witness ==
    /\ pc = "overridden"
    /\ \E i \in Idx :
         /\ opt.enableFilenameOverrideForTarget
         /\ opt.filenameOverrideDays = 1
         /\ items[i].fname = Some(0)
         /\ items[i].ctime = Some(86401)
         /\ items[i].wtime = Some(86400)
         /\ items[i].mtime = 86401
         /\ items[i].target = None

(***************************************************************************)
(* Segments as the engine sees them, for the regime properties.            *)
(***************************************************************************)
Abs(x) == IF x < 0 THEN -x ELSE x

SegLen(s) == s[2] - s[1] + 1

HasPrev(s) == s[1] > 1

HasNext(s) == s[2] < Len(items)

TprevOf(s) == Val(items[s[1] - 1].shot)

TnextOf(s) == Val(items[s[2] + 1].shot)

GapOf(s) == TnextOf(s) - TprevOf(s)

GapLimit == opt.anchorGapLimitDays * 86400

\* the index of the k-th record (k = 1..m) of segment s
Kth(s, k) == s[1] + k - 1

\* q is a / b (b > 0) truncated toward zero
IsTruncQuot(q, a, b) ==
    IF a >= 0 THEN q >= 0 /\ q * b <= a /\ a < (q + 1) * b
              ELSE q <= 0 /\ q * b >= a /\ a > (q - 1) * b

(***************************************************************************)
(* C7. Regime 6: in a segment of m records between anchors Tprev and Tnext *)
(* with |gap| <= gapLimit and |gap| >= m + 1, the k-th record with unset   *)
(* target gets Tprev + trunc(gap * k / (m + 1)), truncated toward zero;    *)
(* the assigned values lie strictly between the anchor times and are       *)
(* strictly monotone in k in the direction of gap.                         *)
(***************************************************************************)
C7_Interpolation ==
    [][InferStep =>
         \A s \in Segments :
           (/\ HasPrev(s) /\ HasNext(s)
            /\ Abs(GapOf(s)) <= GapLimit
            /\ Abs(GapOf(s)) >= SegLen(s) + 1) =>
             \A k \in 1..SegLen(s) :
               ~HasTarget(Kth(s, k)) =>
                 LET t == Val(items'[Kth(s, k)].target)
                     g == GapOf(s)
                 IN  /\ Has(items'[Kth(s, k)].target)
                     /\ IsTruncQuot(t - TprevOf(s), g * k, SegLen(s) + 1)
                     /\ items'[Kth(s, k)].targetReason = "interpolated between anchors"
                     /\ g > 0 => TprevOf(s) < t /\ t < TnextOf(s)
                     /\ g < 0 => TnextOf(s) < t /\ t < TprevOf(s)
                     /\ \A h \in 1..(k - 1) :
                          ~HasTarget(Kth(s, h)) =>
                            /\ g > 0 => Val(items'[Kth(s, h)].target) < t
                            /\ g < 0 => Val(items'[Kth(s, h)].target) > t]_vars

\* anchors 0 and 10 around three records: 2, 5, 7
C7_Witness ==
    /\ pc = "inferred"
    /\ Len(items) = 5
    /\ items[1].shot = Some(0)
    /\ items[5].shot = Some(10)
    /\ \A i \in 2..4 : items[i].targetReason = "interpolated between anchors"
    /\ items[2].target = Some(2)
    /\ items[3].target = Some(5)
    /\ items[4].target = Some(7)

(***************************************************************************)
(* C8. Regime 5: in a segment of m records between anchors with            *)
(* |gap| <= gapLimit and |gap| < m + 1, the k-th record with unset target  *)
(* gets Tprev + dir * k * step.                                            *)
(***************************************************************************)
Sign(x) == IF x > 0 THEN 1 ELSE IF x < 0 THEN -1 ELSE 0

\* 1 for a gap >= 0, -1 for a negative one
DirNonNeg(x) == IF x >= 0 THEN 1 ELSE -1

StepFilled(s, k, dir) ==
    /\ items'[Kth(s, k)].target =
         Some(TprevOf(s) + dir * k * opt.oneSideStepSeconds)
    /\ items'[Kth(s, k)].targetReason = "anchors too close -> step-filled"

CloseSegment(s) ==
    /\ HasPrev(s) /\ HasNext(s)
    /\ Abs(GapOf(s)) <= GapLimit
    /\ Abs(GapOf(s)) < SegLen(s) + 1

\* C8 as claimed: dir = sign(gap), which is 0 for a zero gap
C8_StepFillSign ==
    [][InferStep =>
         \A s \in Segments :
           CloseSegment(s) =>
             \A k \in 1..SegLen(s) :
               ~HasTarget(Kth(s, k)) => StepFilled(s, k, Sign(GapOf(s)))]_vars

\* C8 amended: dir = +1 for a positive or zero gap, -1 for a negative gap
C8_StepFillDir ==
    [][InferStep =>
         \A s \in Segments :
           CloseSegment(s) =>
             \A k \in 1..SegLen(s) :
               ~HasTarget(Kth(s, k)) => StepFilled(s, k, DirNonNeg(GapOf(s)))]_vars

\* anchors 0 and 2 around five records, step 1: 1, 2, 3, 4, 5
C8_Witness ==
    /\ pc = "inferred"
    /\ Len(items) = 7
    /\ opt.oneSideStepSeconds = 1
    /\ items[1].shot = Some(0)
    /\ items[7].shot = Some(2)
    /\ \A i \in 2..6 :
         /\ items[i].target = Some(i - 1)
         /\ items[i].targetReason = "anchors too close -> step-filled"

(***************************************************************************)
(* C9. Regime 4 and its precedence: in a segment of m records between      *)
(* anchors with |Tnext - Tprev| > anchorGapLimitDays * 86400, the record   *)
(* with unset target at 0-based segment index j gets Tprev if j < m / 2    *)
(* (integer division) and Tnext otherwise, with the nearest-fill reason,   *)
(* whether or not |gap| < m + 1.                                           *)
(***************************************************************************)
C9_NearestFill ==
    [][InferStep =>
         \A s \in Segments :
           (HasPrev(s) /\ HasNext(s) /\ Abs(GapOf(s)) > GapLimit) =>
             \A j \in 0..(SegLen(s) - 1) :
               ~HasTarget(s[1] + j) =>
                 /\ items'[s[1] + j].target =
                      Some(IF 2 * (j + 1) <= SegLen(s)
                           THEN TprevOf(s) ELSE TnextOf(s))
                 /\ items'[s[1] + j].targetReason =
                      "gap too large -> nearest anchor fill"]_vars

\* a gap of 2 exceeds a limit of 0 days and is also smaller than m + 1 = 5:
\* the four records get 0, 0, 2, 2
C9_Witness ==
    /\ pc = "inferred"
    /\ Len(items) = 6
    /\ opt.anchorGapLimitDays = 0
    /\ items[1].shot = Some(0)
    /\ items[6].shot = Some(2)
    /\ \A i \in 2..5 :
         items[i].targetReason = "gap too large -> nearest anchor fill"
    /\ items[2].target = Some(0)
    /\ items[3].target = Some(0)
    /\ items[4].target = Some(2)
    /\ items[5].target = Some(2)

(***************************************************************************)
(* C10. One-sided step-fill with oneSideStep enabled: with only an anchor  *)
(* before the segment the k-th record with unset target gets               *)
(* Tprev + k * step; with only an anchor after it, it gets                 *)
(* Tnext - (m - k + 1) * step, so the last record gets Tnext - step and    *)
(* every assigned value is strictly before Tnext.                          *)
(***************************************************************************)
C10_OneSidedStep ==
    [][(InferStep /\ opt.oneSideStep) =>
         \A s \in Segments :
           \A k \in 1..SegLen(s) :
             ~HasTarget(Kth(s, k)) =>
               /\ (HasPrev(s) /\ ~HasNext(s)) =>
                    items'[Kth(s, k)].target =
                      Some(TprevOf(s) + k * opt.oneSideStepSeconds)
               /\ (~HasPrev(s) /\ HasNext(s)) =>
                    /\ items'[Kth(s, k)].target =
                         Some(TnextOf(s)
                              - (SegLen(s) - k + 1) * opt.oneSideStepSeconds)
                    /\ Val(items'[Kth(s, k)].target) < TnextOf(s)
                    /\ k = SegLen(s) =>
                         items'[Kth(s, k)].target =
                           Some(TnextOf(s) - opt.oneSideStepSeconds)]_vars

\* three records before the only anchor, at 10, step 1: 7, 8, 9
C10_Witness ==
    /\ pc = "inferred"
    /\ Len(items) = 4
    /\ opt.oneSideStep
    /\ opt.oneSideStepSeconds = 1
    /\ items[4].shot = Some(10)
    /\ items[1].target = Some(7)
    /\ items[2].target = Some(8)
    /\ items[3].target = Some(9)
    /\ \A i \in 1..3 :
         items[i].targetReason = "only next anchor -> filled -1s steps"

(***************************************************************************)
(* C11. The uniqueness pass never changes a target the override set,       *)
(* whether or not the record has an anchor (a record with a filename time  *)
(* has none when the filename fallback is disabled and it has no           *)
(* metadata).                                                              *)
(***************************************************************************)
UniqueStepTaken == pc = "inferred" /\ pc' = "done"

C11_OverrideNeverBumped ==
    [][UniqueStepTaken =>
         \A i \in Idx :
           items[i].targetReason \in OverrideReasons =>
             items'[i].target = items[i].target]_vars

(***************************************************************************)
(* C12. One-sided fill with oneSideStep disabled: the engine gives every   *)
(* record (with unset target) of a segment that has an anchor on one side  *)
(* only that anchor's time; the uniqueness pass then bumps the records of  *)
(* the segment.                                                            *)
(***************************************************************************)
OneSided(s) == HasPrev(s) # HasNext(s)

\* the time of the segment's only anchor
OnlyAnchorTime(s) == IF HasPrev(s) THEN TprevOf(s) ELSE TnextOf(s)

FlatReasons == {"only prev anchor -> filled", "only next anchor -> filled"}

\* every record of the segment got its target from the flat one-sided fill
FlatFilled(s) ==
    \A i \in s[1]..s[2] : items[i].targetReason \in FlatReasons

\* the step of the uniqueness pass
BumpStep == IF opt.oneSideStepSeconds >= 1 THEN opt.oneSideStepSeconds ELSE 1

FlatFillAssigns ==
    InferStep =>
      \A s \in Segments :
        OneSided(s) =>
          \A i \in s[1]..s[2] :
            ~HasTarget(i) => items'[i].target = Some(OnlyAnchorTime(s))

\* C12 as claimed: the pass bumps every record of the segment but the
\* first, which keeps the anchor time
C12_FlatFillAllButFirst ==
    [][~opt.oneSideStep =>
         /\ FlatFillAssigns
         /\ UniqueStepTaken =>
              \A s \in Segments :
                (OneSided(s) /\ FlatFilled(s)) =>
                  /\ items'[s[1]].target = Some(OnlyAnchorTime(s))
                  /\ \A i \in (s[1] + 1)..s[2] :
                       items'[i].target # items[i].target]_vars

\* C12 amended: before its only anchor the segment ends as Tnext,
\* Tnext + step, ... (the first record keeps the anchor time); after its
\* only anchor, whose record has target A, it ends as A + step,
\* A + 2 * step, ... (the first record is bumped too) unless A is earlier
\* than Tprev, and then as Tprev, Tprev + step, ...
C12_FlatFillThenBump ==
    [][~opt.oneSideStep =>
         /\ FlatFillAssigns
         /\ UniqueStepTaken =>
              \A s \in Segments :
                (OneSided(s) /\ FlatFilled(s)) =>
                  \A k \in 1..SegLen(s) :
                    items'[Kth(s, k)].target =
                      Some(IF ~HasPrev(s)
                           THEN TnextOf(s) + (k - 1) * BumpStep
                           ELSE LET A == Val(items[s[1] - 1].target)
                                IN  IF A < TprevOf(s)
                                    THEN TprevOf(s) + (k - 1) * BumpStep
                                    ELSE A + k * BumpStep)]_vars

\* two records after the only anchor, at 3, flat-filled with 3 and then
\* bumped to 4 and 5
C12_Witness ==
    /\ pc = "done"
    /\ ~opt.oneSideStep
    /\ Len(items) = 3
    /\ items[1].shot = Some(3)
    /\ items[1].target = Some(3)
    /\ items[2].target = Some(4)
    /\ items[3].target = Some(5)
    /\ \A i \in 2..3 :
         items[i].targetReason = "only prev anchor -> filled + unique(+1s steps)"

(***************************************************************************)
(* C13                                                                     *)
(***************************************************************************)
UniqueSuffix == " + unique(+1s steps)"

ReasonMatchesTarget ==
    pc' = "done" =>
      \A i \in Idx :
        Has(items'[i].target) <=> items'[i].targetReason # ""

\* C13 (as stated): a record's target is written exactly one time by exactly
\* one stage: once a target is set no later step of the pipeline changes it,
\* and at the end of the pipeline a record has a target exactly when it has
\* a non-empty targetReason.
C13_TargetSetOnce ==
    [][/\ \A i \in Idx :
            HasTarget(i) => items'[i].target = items[i].target
       /\ ReasonMatchesTarget]_vars

\* C13 (amended): a target goes from unset to set at most once (it is never
\* unset again, and it is set together with a non-empty reason); a target
\* that is set changes only in the Uniqueness Pass, only for a record without
\* anchor, and then the reason gets the unique suffix appended, otherwise the
\* reason stays as written; at the end of the pipeline a record has a target
\* exactly when it has a non-empty targetReason.
C13_TargetLifecycle ==
    [][/\ \A i \in Idx :
            /\ HasTarget(i) => Has(items'[i].target)
            /\ ~HasTarget(i) => items[i].targetReason = ""
            /\ (~HasTarget(i) /\ Has(items'[i].target)) =>
                 /\ items'[i].targetReason # ""
                 /\ ~UniqueStepTaken
            /\ (HasTarget(i) /\ items'[i].target # items[i].target) =>
                 /\ UniqueStepTaken
                 /\ ~HasAnchor(i)
                 /\ items'[i].targetReason =
                      items[i].targetReason \o UniqueSuffix
            /\ (HasTarget(i) /\ items'[i].target = items[i].target) =>
                 items'[i].targetReason = items[i].targetReason
       /\ ReasonMatchesTarget]_vars

\* a finished run with a target written by each stage: the override's, the
\* default's, and an inferred one rewritten by the Uniqueness Pass
C13_Witness ==
    /\ pc = "done" /\ Len(items) = 3
    /\ items[1].targetReason \in OverrideReasons
    /\ items[2].targetReason = "shot from metadata"
    /\ items[3].targetReason = "only prev anchor -> filled" \o UniqueSuffix

(***************************************************************************)
(* C14                                                                     *)
(***************************************************************************)
\* the fields of a record other than target and targetReason
SameButTarget(a, b) ==
    /\ a.path = b.path
    /\ a.mtime = b.mtime
    /\ a.ctime = b.ctime
    /\ a.wtime = b.wtime
    /\ a.fname = b.fname
    /\ a.shot = b.shot
    /\ a.shotSource = b.shotSource

\* C14: no stage after the sort (override, default assignment, inference,
\* uniqueness pass) changes the length of the sequence, the position of a
\* record (the record at index i keeps its path), its order key (mtime,
\* path), its shot time or its shot source: only target and targetReason
\* are written.
C14_FrameAfterSort ==
    [][/\ DOMAIN items' = DOMAIN items
       /\ \A i \in Idx : SameButTarget(items'[i], items[i])]_vars

\* a finished run in which the override, the default assignment, the
\* inference and the uniqueness pass each wrote a target
C14_Witness ==
    /\ pc = "done" /\ Len(items) = 3
    /\ IsSorted(items)
    /\ \E i \in Idx : items[i].targetReason \in OverrideReasons
    /\ \E i \in Idx : items[i].targetReason = "shot from metadata"
    /\ \E i \in Idx : ~HasAnchor(i) /\ items[i].target = Some(4)
                      /\ items[i].targetReason # ""
                      /\ items[i].targetReason
                           \notin {"only prev anchor -> filled",
                                   "only next anchor -> filled"}

(***************************************************************************)
(* C15                                                                     *)
(***************************************************************************)
SortStep == pc = "collected" /\ pc' = "sorted"

DistinctPaths(its) ==
    \A i, j \in DOMAIN its : i # j => its[i].path # its[j].path

Rearranged(its, p) == [i \in 1..Len(its) |-> its[p[i]]]

\* C15: for records with pairwise distinct paths the sort returns a
\* permutation of its input, ascending by mtime with equal mtimes in
\* ascending path order, and returns that same sequence for every
\* arrangement of the input (so sorting the result again changes nothing).
C15_SortResult ==
    [][(SortStep /\ DistinctPaths(items)) =>
         LET n == Len(items) IN
           /\ Len(items') = n
           /\ \E p \in Perms(n) : items' = Rearranged(items, p)
           /\ \A i \in 1..(n - 1) :
                \/ items'[i].mtime < items'[i + 1].mtime
                \/ /\ items'[i].mtime = items'[i + 1].mtime
                   /\ items'[i].path < items'[i + 1].path
           /\ \A p \in Perms(n) : SortItems(Rearranged(items, p)) = items'
           /\ SortItems(items') = items']_vars

\* a sorted vector of three records where the mtime order goes against the
\* path order and a tie on mtime is broken by path
C15_Witness ==
    /\ pc = "sorted" /\ Len(items) = 3
    /\ items[1].path = 3 /\ items[1].mtime = 1
    /\ items[2].path = 1 /\ items[2].mtime = 2
    /\ items[3].path = 2 /\ items[3].mtime = 2

(***************************************************************************)
(* C16                                                                     *)
(***************************************************************************)
\* the final target of the nearest record before i that has a target
FinalPrevTarget(i) == items'[Val(PrevWithTarget(i))].target

Collides(i) ==
    /\ HasTarget(i)
    /\ ~HasAnchor(i)
    /\ Has(PrevWithTarget(i))
    /\ Val(items[i].target) <= Val(FinalPrevTarget(i))

\* C16: in the uniqueness pass, with prevTarget the final target of the
\* nearest preceding record that has a target, a record with a target and
\* without anchor whose target is <= prevTarget gets prevTarget + step
\* (step = oneSideStepSeconds, at least 1) and " + unique(+1s steps)" after
\* its reason; every other record keeps its target and reason.  As
\* prevTarget is the final target, a run of colliding records ends at
\* prev + step, prev + 2*step, ...
C16_UniquePassStep ==
    [][UniqueStepTaken =>
         \A i \in Idx :
           IF Collides(i)
           THEN /\ items'[i].target = Some(Val(FinalPrevTarget(i)) + BumpStep)
                /\ items'[i].targetReason =
                     items[i].targetReason \o UniqueSuffix
           ELSE /\ items'[i].target = items[i].target
                /\ items'[i].targetReason = items[i].targetReason]_vars

\* anchor target 10 followed by a record interpolated to 9 (next anchor 8):
\* the record ends at 10 + step with step 2
C16_Witness ==
    /\ pc = "done" /\ Len(items) = 3 /\ opt.oneSideStepSeconds = 2
    /\ items[1].target = Some(10)
    /\ items[3].shot = Some(8)
    /\ ~HasAnchor(2)
    /\ items[2].target = Some(12)
    /\ items[2].targetReason = "interpolated between anchors" \o UniqueSuffix

(***************************************************************************)
(* C17                                                                     *)
(***************************************************************************)
NoAnchorAtAll == \A j \in Idx : ~HasAnchor(j)

\* C17: a record ends the pipeline with its target unset if and only if it
\* has no anchor, the override did not fire for it and no record of the
\* sequence has an anchor (so with one anchor in the sequence every record
\* ends with a target); and the inference leaves every record of a segment
\* that has no anchor on either side as it was.
C17_UnsetCharacterised ==
    [][/\ pc' = "done" =>
            \A i \in Idx :
              ~Has(items'[i].target) <=>
                (~HasAnchor(i) /\ ~OverrideFires(items[i]) /\ NoAnchorAtAll)
       /\ InferStep =>
            \A s \in Segments :
              (~HasPrev(s) /\ ~HasNext(s)) =>
                \A i \in s[1]..s[2] : items'[i] = items[i]]_vars

\* a finished run without any anchor: the record the override fired for has
\* its target, the records around it end unset with no reason
C17_Witness ==
    /\ pc = "done" /\ Len(items) = 3
    /\ NoAnchorAtAll
    /\ items[1].target = None /\ items[1].targetReason = ""
    /\ items[2].targetReason \in OverrideReasons
    /\ items[3].target = None /\ items[3].targetReason = ""

(***************************************************************************)
(* C18                                                                     *)
(***************************************************************************)
\* the segments found so far that hold index k
FoundWith(k) ==
    { q \in 1..Len(pc.segs) : pc.segs[q][1] <= k /\ k <= pc.segs[q][2] }

\* indices the scan has dealt with
Scanned ==
    IF pc.at = "done" THEN Idx
    ELSE IF pc.at = "inner" THEN 1..(pc.L - 1)
    ELSE 1..(pc.i - 1)

FoundSegmentsOK ==
    /\ \A q \in 1..Len(pc.segs) :
         LET L == pc.segs[q][1]
             R == pc.segs[q][2]
         IN  /\ 1 <= L /\ L <= R /\ R <= Len(items)
             /\ \A k \in L..R : ~HasAnchor(k)
             /\ L > 1 => HasAnchor(L - 1)
             /\ R < Len(items) => HasAnchor(R + 1)
    /\ \A k \in Scanned : ~HasAnchor(k) => Cardinality(FoundWith(k)) = 1
    /\ \A k \in Idx : HasAnchor(k) => FoundWith(k) = {}
    /\ pc.at = "fill" =>
         /\ pc.segs[Len(pc.segs)] = <<pc.L, pc.R>>
         /\ Has(pc.Tprev) <=> pc.L > 1
         /\ Has(pc.Tnext) <=> pc.R < Len(items)

WritesInsideSegment ==
    \A k \in Idx :
      items'[k] # items[k] => (pc.at = "fill" /\ pc.L <= k /\ k <= pc.R)

\* C18: the scan of inferMissingByInterpolation terminates; every segment it
\* finds is non-empty and maximal (its records have no anchor, the records
\* just before and after it, when they exist, have one, so Tprev is defined
\* iff the segment does not start the vector and Tnext iff it does not end
\* it); every record without anchor lies in exactly one found segment; and
\* every write made while a segment is processed goes to an index in [L, R].
C18_SegmentScan ==
    /\ <>(pc.at = "done")
    /\ [](FoundSegmentsOK)
    /\ [][WritesInsideSegment]_vars

\* the scan has ended on a vector of four with an anchor in second place:
\* two segments found, the records of both written
C18_Witness ==
    /\ pc.at = "done"
    /\ pc.segs = << <<1, 1>>, <<3, 4>> >>
    /\ items[2].shot = Some(3)
    /\ \A k \in {1, 3, 4} :
         pc.start[k].target = None /\ Has(items[k].target)
====
